---- MODULE Spec2Model ----
(***************************************************************************)
(* A model of the two client components of the parking-management front    *)
(* end that wrap the mapping provider's library:                           *)
(*                                                                         *)
(*   Map                       src/unnamed/part_000                        *)
(*   AddressAutoCompleteInput  src/components/address-autocomplete.input.tsx *)
(*                                                                         *)
(* One behaviour follows ONE mounted instance of one of the two components *)
(* (variable component) through prop changes, loader changes, provider     *)
(* events and unmount.  A commit of React (a render whose effect           *)
(* dependencies changed) is one action: the previous effect's cleanup      *)
(* function, when one was returned, then the effect body, then the render  *)
(* output.  The provider's objects (canvas, markers, popup, circles,       *)
(* Autocomplete, listeners) are modelled by what the code does to them.    *)
(***************************************************************************)
EXTENDS Integers, Sequences, FiniteSets, TLC

(***************************************************************************)
(* Bounds of the model.                                                    *)
(***************************************************************************)
\* Longest record list that is passed as mapParams.
MaxRecs == 2
\* The count of circles left attached by earlier cycles saturates here.
MaxStale == 1

(***************************************************************************)
(* Values.  An optional JavaScript value is <<>> (undefined) or <<v>>.     *)
(***************************************************************************)
None == << >>

Some(v) == << v >>

IsSome(o) == o # << >>

Get(o) == o[1]

\* MapAddressType of "@/types", as the component compares it.
PARKINGLOCATION == "PARKINGLOCATION"

ADMIN == "ADMIN"

DESTINATION == "DESTINATION"

\* An address is the list of its comma separated parts.
AddrA == << "MG Road", "Bengaluru" >>

AddrB == << "Church Street", "Mysuru" >>

\* A JSON null standing where a record is expected.
NullRecord == [isNull |-> TRUE, type |-> "", address |-> None, gpscoords |-> None,
               numberofspots |-> None, hourly |-> None, radius |-> None]

Rec(t, a, g, r) == [isNull |-> FALSE, type |-> t, address |-> a, gpscoords |-> g,
                    numberofspots |-> IF t = DESTINATION THEN None ELSE Some(4),
                    hourly |-> IF t = DESTINATION THEN None ELSE Some(30),
                    radius |-> r]

C1v == [lat |-> 12, lng |-> 77]

C2v == [lat |-> 13, lng |-> 75]

\* Coordinates {lat, lng} used by the records and the places.
Coords == { C1v, C2v }

\* The records the lists are made of: every category, a destination with no
\* radius, with radius 0 and with a radius, and the malformed records (null,
\* no coordinates, no address).
Records == { Rec(PARKINGLOCATION, Some(AddrA), Some(C1v), None),
             Rec(ADMIN, Some(AddrB), Some(C2v), None),
             Rec(DESTINATION, Some(AddrA), Some(C2v), None),
             Rec(DESTINATION, Some(AddrB), Some(C1v), Some(0)),
             Rec(DESTINATION, Some(AddrB), Some(C2v), Some(500)),
             Rec(PARKINGLOCATION, Some(AddrA), None, None),
             Rec(ADMIN, None, Some(C1v), None),
             NullRecord }

RECURSIVE SeqsUpTo(_, _)
SeqsUpTo(S, n) ==
    IF n = 0 THEN { << >> }
    ELSE LET shorter == SeqsUpTo(S, n - 1)
         IN  shorter \cup { Append(s, x) : s \in { t \in shorter : Len(t) = n - 1 }, x \in S }

\* The serialized mapParams prop: text that is no JSON, the JSON text "null",
\* or the JSON text of a list of records.
NotJSON == [kind |-> "garbage", items |-> << >>]

JSONNull == [kind |-> "null", items |-> << >>]

JSONArray(items) == [kind |-> "array", items |-> items]

Payloads == { NotJSON, JSONNull } \cup { JSONArray(s) : s \in SeqsUpTo(Records, MaxRecs) }

\* The strings the parent passes next: its list gains a record at the end,
\* loses its first or its last record, is emptied, or the text is replaced by
\* "null" or by text that is no JSON.
NextPayloads(text) ==
    LET s == text.items
        n == Len(s)
    IN  ({ NotJSON, JSONNull, JSONArray(<< >>) }
         \cup { JSONArray(Append(s, r)) : r \in IF n < MaxRecs THEN Records ELSE {} }
         \cup (IF n > 0 THEN { JSONArray(SubSeq(s, 1, n - 1)), JSONArray(SubSeq(s, 2, n)) }
               ELSE {}))
        \ { text }

(***************************************************************************)
(* State.                                                                  *)
(***************************************************************************)
VARIABLES
    component,       \* "Map" or "Input": the component this instance is
    mounted,         \* the instance is mounted
    apiKey,          \* process.env.NEXT_PUBLIC_MAPS_API_KEY is set
    isLoaded,        \* useJsApiLoader().isLoaded
    loadError,       \* useJsApiLoader().loadError is set
    fault,           \* the provider constructor that threw in the last effect run
    mapParams,       \* Map: the mapParams prop
    markersRef,      \* Map: markersRef.current, a list of marker objects
    infoWindowRef,   \* Map: infoWindowRef.current, None or Some(popup)
    mapInstanceRef,  \* Map: mapInstanceRef.current, None or Some(canvas)
    canvasMarkers,   \* provider: the markers whose map is a canvas
    circles,         \* provider: circles of this cycle attached to its canvas
    staleCircles,    \* provider: circles of earlier cycles still attached
    openPopups,      \* provider: the popups that are open
    onAddressSelect, \* Input: the onAddressSelect prop (a function identity)
    onChange,        \* Input: the onChange prop, None or Some(identity)
    autocompleteRef, \* Input: autocompleteRef.current
    listeners,       \* provider: registered place_changed listeners
    lastPlace,       \* Input: Some(getPlace()) right after a place_changed event
    invoked,         \* Input: the callbacks that event ran, in order
    hasCleanup,      \* React holds a cleanup function of the last effect run
    constructed,     \* the constructor calls and the catches of the last commit, in order
    overlap,         \* the last commit built on top of an earlier cycle's objects
    released,        \* the last commit's cleanup released objects of the cycle before
    logged,          \* the console diagnostics of the last commit or event
    escaped,         \* an exception left the component's code
    rendered,        \* what the last render returned
    loadedAtUnmount, \* None while mounted; Some(isLoaded at the unmount) after
    staleClicks      \* provider: a detached marker still has its click listener

vars == << component, mounted, apiKey, isLoaded, loadError, fault, mapParams,
           markersRef, infoWindowRef, mapInstanceRef, canvasMarkers, circles,
           staleCircles, openPopups, onAddressSelect, onChange, autocompleteRef,
           listeners, lastPlace, invoked, hasCleanup, constructed, overlap, released,
           logged, escaped, rendered, loadedAtUnmount, staleClicks >>

(***************************************************************************)
(* Provider objects.  gen is "cur" for an object the effect run of the     *)
(* current cycle constructed and "old" for one an earlier cycle            *)
(* constructed; index is the position of the record in the list (1 based). *)
(***************************************************************************)
Zoom == 14

PopupMaxWidth == 200

DefaultRadius == 1000

\* A constructor call: the class and the record it was called for (0: none).
New(class, index) == [class |-> class, index |-> index]

\* A catch block that ran, in the iteration of that record (0: the outer one).
Caught(index) == [class |-> "catch", index |-> index]

\* Marker placed at the coordinates of no record.
Marker_AtOrigin(index, loc) ==
    [gen |-> "cur", index |-> index, position |-> Some([lat |-> 0, lng |-> 0]),
     title |-> loc.address, attribute |-> None, content |-> None, listening |-> FALSE]

Marker(index, loc) ==
    [gen |-> "cur", index |-> index, position |-> loc.gpscoords, title |-> loc.address,
     attribute |-> None, content |-> None, listening |-> FALSE]

\* A new cycle begins: what the last cycle built is now an earlier cycle's.
AgeObj(o) == [o EXCEPT !.gen = "old"]

AgeOpt(o) == IF IsSome(o) THEN Some(AgeObj(Get(o))) ELSE None

Age(w) ==
    [w EXCEPT !.markersRef = [i \in 1..Len(w.markersRef) |-> AgeObj(w.markersRef[i])],
              !.infoWindowRef = AgeOpt(w.infoWindowRef),
              !.mapInstanceRef = AgeOpt(w.mapInstanceRef),
              !.autocompleteRef = AgeOpt(w.autocompleteRef),
              !.canvasMarkers = { AgeObj(m) : m \in w.canvasMarkers },
              !.circles = { AgeObj(c) : c \in w.circles },
              !.openPopups = { AgeObj(q) : q \in w.openPopups },
              !.listeners = { AgeObj(l) : l \in w.listeners },
              !.constructed = << >>,
              !.overlap = FALSE,
              !.released = FALSE,
              !.logged = << >>]

Min(a, b) == IF a < b THEN a ELSE b

\* The commit is over: the circles of earlier cycles that nothing detached stay
\* attached to the canvas they were drawn on.
Settle(w) ==
    LET left == { c \in w.circles : c.gen = "old" }
    IN  [w EXCEPT !.circles = w.circles \ left,
                  !.staleCircles = Min(w.staleCircles + Cardinality(left), MaxStale)]

(***************************************************************************)
(* Map (src/unnamed/part_000)                                              *)
(***************************************************************************)
\* JSON.parse(mapParams): the value, or a SyntaxError.
JSONParse(text) ==
    CASE text.kind = "garbage" -> [threw |-> TRUE, isNull |-> FALSE, value |-> << >>]
      [] text.kind = "null" -> [threw |-> FALSE, isNull |-> TRUE, value |-> << >>]
      [] OTHER -> [threw |-> FALSE, isNull |-> FALSE, value |-> text.items]

\* ParseMapParams with no try around JSON.parse.
ParseMapParams_NoCatch(text) ==
    LET parsed == JSONParse(text)
    IN  IF parsed.threw
        THEN [params |-> None, error |-> FALSE, threw |-> TRUE]
        ELSE IF parsed.isNull \/ Len(parsed.value) = 0
             THEN [params |-> None, error |-> FALSE, threw |-> FALSE]
             ELSE [params |-> Some(parsed.value), error |-> FALSE, threw |-> FALSE]

\* The params memo: None is null.  error is the console.error of the catch.
ParseMapParams(text) ==
    LET parsed == JSONParse(text)
    IN  IF parsed.threw
        THEN [params |-> None, error |-> TRUE, threw |-> FALSE]
        ELSE IF parsed.isNull \/ Len(parsed.value) = 0
             THEN [params |-> None, error |-> FALSE, threw |-> FALSE]
             ELSE [params |-> Some(parsed.value), error |-> FALSE, threw |-> FALSE]

Params(text) == ParseMapParams(text).params

getPinType(loc) ==
    IF loc.type = DESTINATION THEN "parking_destination_tr" ELSE "parking_pin_tr"

\* RenderMap with the credential tested before the data.
RenderMap_KeyFirst(params, key, err, loaded) ==
    IF ~key THEN "keyNotConfigured"
    ELSE IF params = None \/ Len(Get(params)) = 0 THEN "noLocations"
    ELSE IF err THEN "loadError"
    ELSE IF ~loaded THEN "loading"
    ELSE "canvas"

\* What the component returns.
RenderMap(params, key, err, loaded) ==
    IF params = None \/ Len(Get(params)) = 0 THEN "noLocations"
    ELSE IF ~key THEN "keyNotConfigured"
    ELSE IF err THEN "loadError"
    ELSE IF ~loaded THEN "loading"
    ELSE "canvas"

\* mapRef.current after the commit: the div exists in the canvas output only.
MapRefCurrent(params, key, err, loaded) == RenderMap(params, key, err, loaded) = "canvas"

\* window.google.maps: the loader reports isLoaded once the script defined it.
GoogleMapsAvailable(loaded) == loaded

\* The effect returns at once, with no cleanup function.
MapEffectSkips(params, key, err, loaded) ==
    \/ ~loaded \/ ~key \/ err \/ params = None \/ Len(Get(params)) = 0
    \/ ~MapRefCurrent(params, key, err, loaded)
    \/ ~GoogleMapsAvailable(loaded)

\* Helpers of "@/lib/utils".  getStreetFromAddress takes the first part of the
\* address; handed undefined it throws a TypeError.
getStreetFromAddress(address) == Some(Head(Get(address)))

getStreetThrows(address) == address = None

buildMapInfoCardContent(street, address, spots, hourly) ==
    [card |-> "location", street |-> street, address |-> address,
     spots |-> spots, hourly |-> hourly]

buildMapInfoCardContentForDestination(street, address) ==
    [card |-> "destination", street |-> street, address |-> address,
     spots |-> None, hourly |-> None]

parkingPinWithIndex(type, index) == [pin |-> type, label |-> Some(index)]

parkingPin(type) == [pin |-> type, label |-> None]

destinationPin(type) == [pin |-> type, label |-> None]

Throw(w) == [w EXCEPT !.thrown = TRUE]

Log(w, msg) == [w EXCEPT !.logged = Append(@, msg)]

Constructed(w, c) == [w EXCEPT !.constructed = Append(@, c)]

\* Something an earlier cycle built is still attached, open or listening.
EarlierLive(w) ==
    \/ \E m \in w.canvasMarkers : m.gen = "old"
    \/ \E q \in w.openPopups : q.gen = "old"
    \/ \E l \in w.listeners : l.gen = "old"
    \/ (IsSome(w.autocompleteRef) /\ Get(w.autocompleteRef).gen = "old")

\* The effect constructs an object that is shown or listens: note whether the
\* earlier cycle's are still live at that moment.
Building(w) == [w EXCEPT !.overlap = @ \/ EarlierLive(w)]

\* The marker pushed last is the object the rest of the iteration writes to.
UpdateLast(w, m) ==
    LET n == Len(w.markersRef)
        old == w.markersRef[n]
    IN  [w EXCEPT !.markersRef[n] = m,
                  !.canvasMarkers = (@ \ {old}) \cup {m}]

LastMarker(w) == w.markersRef[Len(w.markersRef)]

\* marker.map = null for every marker of markersRef.current, then the list is
\* emptied.  Nothing removes the click listener of a detached marker.
RECURSIVE DetachAll(_, _)
DetachAll(w, i) ==
    IF i > Len(w.markersRef) THEN [w EXCEPT !.markersRef = << >>]
    ELSE LET m == w.markersRef[i]
         IN  DetachAll([w EXCEPT !.canvasMarkers = @ \ {m},
                                 !.staleClicks = @ \/ m.listening], i + 1)

ClearMarkers(w) == DetachAll(w, 1)

\* new google.maps.Circle(...), centred on record 0.
NewCircle(w, loc, index, p0, f) ==
    IF f = "Circle" THEN Throw(w)
    ELSE Constructed([w EXCEPT !.circles = @ \cup
                    { [gen |-> "cur", index |-> index,
                       center |-> [lat |-> Get(p0.gpscoords).lat, lng |-> Get(p0.gpscoords).lng],
                       radius |-> IF IsSome(loc.radius) /\ Get(loc.radius) # 0
                                  THEN Get(loc.radius) ELSE DefaultRadius] }],
                New("Circle", index))

\* marker.setAttribute("content", ...) with the card of the record's category.
SetCard(w, loc) ==
    IF getStreetThrows(loc.address) THEN Throw(w)
    ELSE UpdateLast(w, [LastMarker(w) EXCEPT !.attribute =
            Some(IF loc.type = PARKINGLOCATION \/ loc.type = ADMIN
                 THEN buildMapInfoCardContent(getStreetFromAddress(loc.address),
                          loc.address, loc.numberofspots, loc.hourly)
                 ELSE buildMapInfoCardContentForDestination(
                          getStreetFromAddress(loc.address), loc.address))])

\* marker.content = <pin>.element
SetPin(w, loc, index) ==
    UpdateLast(w, [LastMarker(w) EXCEPT !.content =
        Some(IF loc.type = PARKINGLOCATION THEN parkingPinWithIndex(getPinType(loc), index)
             ELSE IF loc.type = ADMIN THEN parkingPin(getPinType(loc))
             ELSE destinationPin(getPinType(loc)))])

\* marker.addListener('click', ...)
AddClickListener(w, index) ==
    UpdateLast(w, [LastMarker(w) EXCEPT !.listening = TRUE])

Then(w, next) == IF w.thrown THEN w ELSE next

\* The body of the try of one iteration of params.forEach.
MarkerBody(w, loc, index, p0, f) ==
    IF loc.isNull \/ f = "Marker" THEN Throw(w)
    ELSE LET m == Marker(index, loc)
             w1 == Constructed([Building(w) EXCEPT !.markersRef = Append(@, m),
                                                   !.canvasMarkers = @ \cup {m}],
                               New("AdvancedMarkerElement", index))
         IN  IF loc.type = PARKINGLOCATION \/ loc.type = ADMIN
             THEN LET w2 == SetCard(w1, loc)
                      w3 == Then(w2, SetPin(w2, loc, index))
                  IN  Then(w3, AddClickListener(w3, index))
             ELSE LET w2 == NewCircle(w1, loc, index, p0, f)
                      w3 == Then(w2, SetPin(w2, loc, index))
                      w4 == Then(w3, SetCard(w3, loc))
                  IN  Then(w4, AddClickListener(w4, index))

\* One iteration: the try and its catch.
MarkerStep(w, loc, index, p0, f) ==
    LET r == MarkerBody(w, loc, index, p0, f)
    IN  IF r.thrown
        THEN Constructed(Log([r EXCEPT !.thrown = FALSE], "Error creating marker"),
                         Caught(index))
        ELSE r

RECURSIVE CreateMarkers(_, _, _, _)
CreateMarkers(w, params, i, f) ==
    IF w.thrown \/ i > Len(params) THEN w
    ELSE CreateMarkers(MarkerStep(w, params[i], i, params[1], f), params, i + 1, f)

\* new google.maps.Map(mapRef.current, {center: params[0].gpscoords, zoom})
NewMap(w, p0, f) ==
    IF p0.isNull \/ p0.gpscoords = None \/ f = "Map" THEN Throw(w)
    ELSE Constructed([w EXCEPT !.mapInstanceRef =
                    Some([gen |-> "cur", zoom |-> Zoom,
                          center |-> [lat |-> Get(p0.gpscoords).lat,
                                      lng |-> Get(p0.gpscoords).lng]])],
                New("Map", 0))

\* infoWindowRef.current = new google.maps.InfoWindow({maxWidth})
NewInfoWindow(w, f) ==
    IF f = "InfoWindow" THEN Throw(w)
    ELSE Constructed([w EXCEPT !.infoWindowRef =
                         Some([gen |-> "cur", maxWidth |-> PopupMaxWidth])],
                     New("InfoWindow", 0))

\* MapTryBody with the canvas centred on the last record.
MapTryBody_CentreOnLast(w, params, f) ==
    LET w1 == NewMap(w, params[Len(params)], f)
        w2 == Then(w1, NewInfoWindow(w1, f))
        w3 == Then(w2, ClearMarkers(w2))
    IN  Then(w3, CreateMarkers(w3, params, 1, f))

\* The body of the effect's try.
MapTryBody(w, params, f) ==
    LET w1 == NewMap(w, params[1], f)
        w2 == Then(w1, NewInfoWindow(w1, f))
        w3 == Then(w2, ClearMarkers(w2))
    IN  Then(w3, CreateMarkers(w3, params, 1, f))

\* The try and its catch: the effect goes on to return its cleanup function.
MapEffect(w, params, f) ==
    LET r == MapTryBody(w, params, f)
    IN  IF r.thrown
        THEN Constructed(Log([r EXCEPT !.thrown = FALSE], "Error initializing map"), Caught(0))
        ELSE r

\* infoWindowRef.current.close()
ClosePopup(w) ==
    IF IsSome(w.infoWindowRef)
    THEN [w EXCEPT !.openPopups = { q \in @ : q.gen # Get(w.infoWindowRef).gen },
                   !.infoWindowRef = None]
    ELSE w

\* MapCleanup that empties the list without detaching its markers.
MapCleanup_ForgetsMarkers(w) ==
    [ClosePopup([w EXCEPT !.markersRef = << >>]) EXCEPT
        !.mapInstanceRef = None,
        !.released = w.markersRef # << >>]

\* The cleanup function the effect returned.
MapCleanup(w) ==
    [ClosePopup(ClearMarkers(w)) EXCEPT
        !.mapInstanceRef = None,
        !.released = w.markersRef # << >>]

\* One commit of Map whose dependencies changed: the cleanup function of the
\* last effect run, when it returned one, and then the effect.
\* recomputed: mapParams changed, so the params memo runs again.
MapCommit(w0, hadCleanup, recomputed, text, key, err, loaded, f) ==
    LET memo == ParseMapParams(text)
        w1 == Age(w0)
        w2 == IF recomputed /\ memo.error THEN Log(w1, "Error parsing mapParams") ELSE w1
        w3 == IF hadCleanup THEN MapCleanup(w2) ELSE w2
    IN  IF recomputed /\ memo.threw THEN [w |-> Settle(Throw(w3)), cleanup |-> FALSE]
        ELSE IF MapEffectSkips(memo.params, key, err, loaded)
        THEN [w |-> Settle(IF err THEN Log(w3, "Error loading Google Maps") ELSE w3),
              cleanup |-> FALSE]
        ELSE LET w4 == MapEffect(w3, Get(memo.params), f)
             IN  [w |-> Settle(w4), cleanup |-> ~w4.thrown]

(***************************************************************************)
(* AddressAutoCompleteInput (src/components/address-autocomplete.input.tsx)*)
(***************************************************************************)
\* The approximate box of Karnataka the suggestions are biased to.
BoundsSouth == 115

BoundsWest == 740

BoundsNorth == 185

BoundsEast == 785

\* In tenths of a degree.
karnatakaBounds == [sw |-> [lat |-> BoundsSouth, lng |-> BoundsWest],
                    ne |-> [lat |-> BoundsNorth, lng |-> BoundsEast]]

\* RenderInput with the load error tested before the credential.
RenderInput_ErrorFirst(key, err, loaded) ==
    IF err THEN "loadError"
    ELSE IF ~key THEN "keyNotConfigured"
    ELSE IF ~loaded THEN "loading"
    ELSE "input"

RenderInput(key, err, loaded) ==
    IF ~key THEN "keyNotConfigured"
    ELSE IF err THEN "loadError"
    ELSE IF ~loaded THEN "loading"
    ELSE "input"

\* placesAutoCompleteRef.current: only the editable field carries the ref.
PlacesRefCurrent(key, err, loaded) == RenderInput(key, err, loaded) = "input"

\* InputEffectSkips without the test of the load error and of the ref.
InputEffectSkips_IgnoresError(key, err, loaded) == ~loaded \/ ~key

InputEffectSkips(key, err, loaded) ==
    \/ ~loaded \/ ~key \/ err \/ ~PlacesRefCurrent(key, err, loaded)
    \/ ~GoogleMapsAvailable(loaded)

\* The body of the effect's try, up to the return of the cleanup function.
InputTryBody(w, cb, oc, f) ==
    IF f = "LatLngBounds" THEN Throw(w)
    ELSE LET w1 == Constructed(w, New("LatLngBounds", 0))
         IN  IF f = "Autocomplete" THEN Throw(w1)
             ELSE LET a == [gen |-> "cur", bounds |-> karnatakaBounds, strictBounds |-> FALSE,
                            fields |-> << "formatted_address", "geometry", "name" >>,
                            country |-> << "in" >>]
                      w2 == Constructed([Building(w1) EXCEPT !.autocompleteRef = Some(a)],
                                        New("Autocomplete", 0))
                  IN  [w2 EXCEPT !.listeners = @ \cup
                          { [gen |-> "cur", handleAddressSelect |-> cb, onChange |-> oc] }]

\* The try and its catch; after the catch the effect returns nothing.
InputEffect(w, cb, oc, f) ==
    LET r == InputTryBody(w, cb, oc, f)
    IN  IF r.thrown
        THEN [w |-> Constructed(Log([r EXCEPT !.thrown = FALSE],
                                    "Error initializing Autocomplete"), Caught(0)),
              cleanup |-> FALSE]
        ELSE [w |-> r, cleanup |-> TRUE]

\* InputCleanup that clears the handle and leaves the listener registered.
InputCleanup_KeepsListener(w) ==
    [w EXCEPT !.autocompleteRef = None,
              !.released = \E l \in w.listeners : l.gen = "old"]

\* The cleanup function: the listener of that effect run is removed and the
\* handle is cleared.
InputCleanup(w) ==
    [w EXCEPT !.listeners = { l \in @ : l.gen # "old" },
              !.autocompleteRef = None,
              !.released = \E l \in w.listeners : l.gen = "old"]

InputCommit(w0, hadCleanup, key, err, loaded, cb, oc, f) ==
    LET w1 == Age(w0)
        w2 == IF hadCleanup THEN InputCleanup(w1) ELSE w1
    IN  IF InputEffectSkips(key, err, loaded)
        THEN [w |-> IF err THEN Log(w2, "Error loading Google Maps") ELSE w2,
              cleanup |-> FALSE]
        ELSE InputEffect(w2, cb, oc, f)

\* handleAddressSelect, the memoized wrapper of the onAddressSelect prop.
handleAddressSelect(cb, address, gpscoords) ==
    [fn |-> "onAddressSelect", id |-> cb, address |-> Some(address),
     gpscoords |-> Some(gpscoords)]

\* onChange(syntheticEvent), with only target.value set.
SyntheticChange(h, address) ==
    [fn |-> "onChange", id |-> h, address |-> Some(address), gpscoords |-> None]

\* PlaceChangedListener that reads lat() into lng and lng() into lat.
PlaceChangedListener_SwapLatLng(l, place, refCurrent) ==
    IF IsSome(place.geometry) /\ IsSome(Get(place.geometry).location)
       /\ IsSome(place.formatted_address)
    THEN LET loc == Get(Get(place.geometry).location)
             gpscoords == [lat |-> loc.lng, lng |-> loc.lat]
         IN  [invoked |-> << handleAddressSelect(l.handleAddressSelect,
                                  Get(place.formatted_address), gpscoords) >>
                          \o (IF IsSome(l.onChange) /\ refCurrent
                              THEN << SyntheticChange(Get(l.onChange),
                                          Get(place.formatted_address)) >>
                              ELSE << >>),
              logged |-> << >>]
    ELSE [invoked |-> << >>, logged |-> << "Incomplete place data" >>]

\* PlaceChangedListener that tests the geometry only.
PlaceChangedListener_GeometryOnly(l, place, refCurrent) ==
    IF IsSome(place.geometry) /\ IsSome(Get(place.geometry).location)
    THEN LET loc == Get(Get(place.geometry).location)
             gpscoords == [lat |-> loc.lat, lng |-> loc.lng]
         IN  [invoked |-> << [fn |-> "onAddressSelect", id |-> l.handleAddressSelect,
                              address |-> place.formatted_address,
                              gpscoords |-> Some(gpscoords)] >>,
              logged |-> << >>]
    ELSE [invoked |-> << >>, logged |-> << "Incomplete place data" >>]

\* PlaceChangedListener that notifies the change handler first.
PlaceChangedListener_ChangeFirst(l, place, refCurrent) ==
    IF IsSome(place.geometry) /\ IsSome(Get(place.geometry).location)
       /\ IsSome(place.formatted_address)
    THEN LET loc == Get(Get(place.geometry).location)
             gpscoords == [lat |-> loc.lat, lng |-> loc.lng]
         IN  [invoked |-> (IF IsSome(l.onChange) /\ refCurrent
                           THEN << SyntheticChange(Get(l.onChange),
                                       Get(place.formatted_address)) >>
                           ELSE << >>)
                          \o << handleAddressSelect(l.handleAddressSelect,
                                     Get(place.formatted_address), gpscoords) >>,
              logged |-> << >>]
    ELSE [invoked |-> << >>, logged |-> << "Incomplete place data" >>]

\* One place_changed listener, run on the place getPlace() returns.
PlaceChangedListener(l, place, refCurrent) ==
    IF IsSome(place.geometry) /\ IsSome(Get(place.geometry).location)
       /\ IsSome(place.formatted_address)
    THEN LET loc == Get(Get(place.geometry).location)
             gpscoords == [lat |-> loc.lat, lng |-> loc.lng]
         IN  [invoked |-> << handleAddressSelect(l.handleAddressSelect,
                                  Get(place.formatted_address), gpscoords) >>
                          \o (IF IsSome(l.onChange) /\ refCurrent
                              THEN << SyntheticChange(Get(l.onChange),
                                          Get(place.formatted_address)) >>
                              ELSE << >>),
              logged |-> << >>]
    ELSE [invoked |-> << >>, logged |-> << "Incomplete place data" >>]

\* The provider runs every listener registered for the event.
RECURSIVE Dispatch(_, _, _)
Dispatch(ls, place, refCurrent) ==
    IF ls = {} THEN [invoked |-> << >>, logged |-> << >>]
    ELSE LET l == CHOOSE x \in ls : TRUE
             first == PlaceChangedListener(l, place, refCurrent)
             rest == Dispatch(ls \ {l}, place, refCurrent)
         IN  [invoked |-> first.invoked \o rest.invoked,
              logged |-> first.logged \o rest.logged]

\* The places getPlace() can return: with or without a geometry, a location
\* and a formatted address.
Places ==
    { [geometry |-> g, formatted_address |-> a] :
        g \in { None, Some([location |-> None]) }
              \cup { Some([location |-> Some(c)]) : c \in Coords },
        a \in { None, Some(AddrA), Some(AddrB) } }

(***************************************************************************)
(* The instance's state machine.                                           *)
(***************************************************************************)
Components == { "Map", "Input" }

MapFaults == { "none", "Map", "InfoWindow", "Marker", "Circle" }

InputFaults == { "none", "LatLngBounds", "Autocomplete" }

Callbacks == { "select1", "select2" }

ChangeHandlers == { None, Some("change1"), Some("change2") }

\* The refs and the provider's objects, as the operators above thread them.
World ==
    [markersRef |-> markersRef, infoWindowRef |-> infoWindowRef,
     mapInstanceRef |-> mapInstanceRef, autocompleteRef |-> autocompleteRef,
     canvasMarkers |-> canvasMarkers, circles |-> circles,
     staleCircles |-> staleCircles, openPopups |-> openPopups,
     listeners |-> listeners, constructed |-> constructed, overlap |-> overlap,
     released |-> released, logged |-> logged, staleClicks |-> staleClicks,
     thrown |-> FALSE]

SetWorld(w) ==
    /\ markersRef' = w.markersRef
    /\ infoWindowRef' = w.infoWindowRef
    /\ mapInstanceRef' = w.mapInstanceRef
    /\ autocompleteRef' = w.autocompleteRef
    /\ canvasMarkers' = w.canvasMarkers
    /\ circles' = w.circles
    /\ staleCircles' = w.staleCircles
    /\ openPopups' = w.openPopups
    /\ listeners' = w.listeners
    /\ constructed' = w.constructed
    /\ overlap' = w.overlap
    /\ released' = w.released
    /\ logged' = w.logged
    /\ staleClicks' = w.staleClicks
    /\ escaped' = (escaped \/ w.thrown)

Render(comp, text, key, err, loaded) ==
    IF comp = "Map" THEN RenderMap(Params(text), key, err, loaded)
    ELSE RenderInput(key, err, loaded)

\* The constructors that may throw in the effect run of this commit.
Faults(comp, text, key, err, loaded) ==
    IF comp = "Map"
    THEN IF MapEffectSkips(Params(text), key, err, loaded) THEN { "none" } ELSE MapFaults
    ELSE IF InputEffectSkips(key, err, loaded) THEN { "none" } ELSE InputFaults

\* A render with the new values of the dependencies, and its commit.
Commit(text, key, err, loaded, cb, oc) ==
    \E f \in Faults(component, text, key, err, loaded) :
    \E r \in { IF component = "Map"
                THEN MapCommit(World, hasCleanup, text # mapParams, text, key, err, loaded, f)
                ELSE InputCommit(World, hasCleanup, key, err, loaded, cb, oc, f) } :
        /\ SetWorld(r.w)
        /\ fault' = f
        /\ hasCleanup' = r.cleanup
        /\ rendered' = Render(component, text, key, err, loaded)
        /\ lastPlace' = None
        /\ invoked' = << >>

Init ==
    /\ component \in Components
    /\ mounted = TRUE
    /\ apiKey \in BOOLEAN
    /\ isLoaded = FALSE
    /\ loadError = FALSE
    /\ fault = "none"
    /\ mapParams \in IF component = "Map" THEN Payloads ELSE { NotJSON }
    /\ markersRef = << >>
    /\ infoWindowRef = None
    /\ mapInstanceRef = None
    /\ canvasMarkers = {}
    /\ circles = {}
    /\ staleCircles = 0
    /\ openPopups = {}
    /\ onAddressSelect \in IF component = "Input" THEN Callbacks ELSE { "select1" }
    /\ onChange \in IF component = "Input" THEN ChangeHandlers ELSE { None }
    /\ autocompleteRef = None
    /\ listeners = {}
    /\ invoked = << >>
    /\ hasCleanup = FALSE
    /\ constructed = << >>
    /\ overlap = FALSE
    /\ released = FALSE
    /\ lastPlace = None
    /\ logged = IF component = "Map" /\ ParseMapParams(mapParams).error
                THEN << "Error parsing mapParams" >> ELSE << >>
    /\ escaped = (component = "Map" /\ ParseMapParams(mapParams).threw)
    /\ rendered = Render(component, mapParams, apiKey, isLoaded, loadError)
    /\ loadedAtUnmount = None
    /\ staleClicks = FALSE

\* The parent passes another mapParams string.
SetMapParams(p) ==
    /\ mounted /\ component = "Map" /\ p \in NextPayloads(mapParams)
    /\ mapParams' = p
    /\ Commit(p, apiKey, loadError, isLoaded, onAddressSelect, onChange)
    /\ UNCHANGED << component, mounted, apiKey, isLoaded, loadError,
                    onAddressSelect, onChange,
                    loadedAtUnmount >>

\* The loader reports the library loaded (or no longer loaded).
SetLoaded(b) ==
    /\ mounted /\ b # isLoaded
    /\ isLoaded' = b
    /\ Commit(mapParams, apiKey, loadError, b, onAddressSelect, onChange)
    /\ UNCHANGED << component, mounted, apiKey, loadError, mapParams,
                    onAddressSelect, onChange,
                    loadedAtUnmount >>

\* The loader reports a load error (or none any more).
SetLoadError(b) ==
    /\ mounted /\ b # loadError
    /\ loadError' = b
    /\ Commit(mapParams, apiKey, b, isLoaded, onAddressSelect, onChange)
    /\ UNCHANGED << component, mounted, apiKey, isLoaded, mapParams,
                    onAddressSelect, onChange,
                    loadedAtUnmount >>

\* The credential changes.
SetApiKey(b) ==
    /\ mounted /\ b # apiKey
    /\ apiKey' = b
    /\ Commit(mapParams, b, loadError, isLoaded, onAddressSelect, onChange)
    /\ UNCHANGED << component, mounted, isLoaded, loadError, mapParams,
                    onAddressSelect, onChange,
                    loadedAtUnmount >>

\* The parent passes another onAddressSelect function.
SetOnAddressSelect(cb) ==
    /\ mounted /\ component = "Input" /\ cb # onAddressSelect
    /\ onAddressSelect' = cb
    /\ Commit(mapParams, apiKey, loadError, isLoaded, cb, onChange)
    /\ UNCHANGED << component, mounted, apiKey, isLoaded, loadError, mapParams,
                    onChange,
                    loadedAtUnmount >>

\* The parent passes another onChange function, or none.
SetOnChange(oc) ==
    /\ mounted /\ component = "Input" /\ oc # onChange
    /\ onChange' = oc
    /\ Commit(mapParams, apiKey, loadError, isLoaded, onAddressSelect, oc)
    /\ UNCHANGED << component, mounted, apiKey, isLoaded, loadError, mapParams,
                    onAddressSelect,
                    loadedAtUnmount >>

\* The click listener of an attached marker m runs.
MarkerClick(m) ==
    /\ mounted /\ component = "Map" /\ m \in canvasMarkers /\ m.listening
    /\ IF IsSome(infoWindowRef)
       THEN openPopups' = { q \in openPopups : q.gen # Get(infoWindowRef).gen }
                \cup { [gen |-> Get(infoWindowRef).gen, content |-> m.attribute,
                        anchor |-> m.index, anchorGen |-> m.gen] }
       ELSE UNCHANGED openPopups
    /\ UNCHANGED << component, mounted, apiKey, isLoaded, loadError, fault, mapParams,
                    markersRef, infoWindowRef, mapInstanceRef, canvasMarkers, circles,
                    staleCircles, onAddressSelect, onChange, autocompleteRef, listeners,
                    lastPlace, invoked, hasCleanup, constructed, overlap, released, logged,
                    escaped, rendered, loadedAtUnmount, staleClicks >>

\* What is known of a marker that a cleanup detached: its click listener is
\* still registered and still reads infoWindowRef.current.
DetachedMarker ==
    [gen |-> "old", index |-> 0,
     attribute |-> Some([card |-> "detached", street |-> None, address |-> None,
                         spots |-> None, hourly |-> None])]

\* The click listener of a detached marker runs.
StaleMarkerClick ==
    /\ component = "Map" /\ staleClicks
    /\ IF IsSome(infoWindowRef)
       THEN openPopups' = { q \in openPopups : q.gen # Get(infoWindowRef).gen }
                \cup { [gen |-> Get(infoWindowRef).gen, content |-> DetachedMarker.attribute,
                        anchor |-> DetachedMarker.index, anchorGen |-> DetachedMarker.gen] }
       ELSE UNCHANGED openPopups
    /\ UNCHANGED << component, mounted, apiKey, isLoaded, loadError, fault, mapParams,
                    markersRef, infoWindowRef, mapInstanceRef, canvasMarkers, circles,
                    staleCircles, onAddressSelect, onChange, autocompleteRef, listeners,
                    lastPlace, invoked, hasCleanup, constructed, overlap, released, logged,
                    escaped, rendered, loadedAtUnmount, staleClicks >>

\* The user picks a suggestion: the provider fires place_changed.
PlaceChanged(pl) ==
    /\ mounted /\ component = "Input" /\ listeners # {}
    /\ \E r \in { Dispatch(listeners, pl, PlacesRefCurrent(apiKey, loadError, isLoaded)) } :
           /\ invoked' = r.invoked
           /\ logged' = r.logged
    /\ lastPlace' = Some(pl)
    /\ UNCHANGED << component, mounted, apiKey, isLoaded, loadError, fault, mapParams,
                    markersRef, infoWindowRef, mapInstanceRef, canvasMarkers, circles,
                    staleCircles, openPopups, onAddressSelect, onChange,
                    autocompleteRef, listeners, hasCleanup, constructed, overlap,
                    released, escaped, rendered, loadedAtUnmount, staleClicks >>

\* The component unmounts: the cleanup function runs, when there is one.
Unmount ==
    /\ mounted
    /\ mounted' = FALSE
    /\ \E w \in { IF ~hasCleanup THEN Age(World)
                   ELSE IF component = "Map" THEN MapCleanup(Age(World))
                   ELSE InputCleanup(Age(World)) } : SetWorld(Settle(w))
    /\ hasCleanup' = FALSE
    /\ rendered' = "unmounted"
    /\ lastPlace' = None
    /\ invoked' = << >>
    /\ loadedAtUnmount' = Some(isLoaded)
    /\ UNCHANGED << component, apiKey, isLoaded, loadError, fault, mapParams,
                    onAddressSelect, onChange >>

\* LoadAfterUnmount in which the unmounted instance still renders and runs
\* its effect.
LoadAfterUnmount_RunsEffect(b) ==
    /\ ~mounted /\ b # isLoaded
    /\ isLoaded' = b
    /\ Commit(mapParams, apiKey, loadError, b, onAddressSelect, onChange)
    /\ UNCHANGED << component, mounted, apiKey, loadError, mapParams,
                    onAddressSelect, onChange, loadedAtUnmount >>

\* The loader's signal changes after the instance unmounted: the hook's state
\* belongs to no mounted component, so React renders nothing and runs no effect.
LoadAfterUnmount(b) ==
    /\ ~mounted /\ b # isLoaded
    /\ isLoaded' = b
    /\ UNCHANGED << component, mounted, apiKey, loadError, fault, mapParams,
                    markersRef, infoWindowRef, mapInstanceRef, canvasMarkers, circles,
                    staleCircles, openPopups, onAddressSelect, onChange,
                    autocompleteRef, listeners, lastPlace, invoked, hasCleanup,
                    constructed, overlap, released, logged, escaped, rendered,
                    loadedAtUnmount, staleClicks >>

Next ==
    \/ \E p \in NextPayloads(mapParams) : SetMapParams(p)
    \/ \E b \in BOOLEAN : SetLoaded(b)
    \/ \E b \in BOOLEAN : SetLoadError(b)
    \/ \E b \in BOOLEAN : SetApiKey(b)
    \/ \E cb \in Callbacks : SetOnAddressSelect(cb)
    \/ \E oc \in ChangeHandlers : SetOnChange(oc)
    \/ \E m \in canvasMarkers : MarkerClick(m)
    \/ StaleMarkerClick
    \/ \E pl \in Places : PlaceChanged(pl)
    \/ Unmount
    \/ \E b \in BOOLEAN : LoadAfterUnmount(b)

Spec == Init /\ [][Next]_vars

(***************************************************************************)
(* Properties.                                                             *)
(***************************************************************************)
\* The payload is no JSON, is null, or is the empty list.
InvalidPayload == mapParams.kind # "array" \/ mapParams.items = << >>

Range(q) == { q[i] : i \in 1..Len(q) }

\* C1: LocationMap: the markers (and the open popup) of the cycle before are
\* detached (closed) before the effect constructs the first marker of the next
\* cycle, so the attached markers always belong to one cycle, the current
\* one, and none is attached after unmount.
C1_SingleMarkerSet ==
    component = "Map" =>
        /\ \A m \in canvasMarkers : m.gen = "cur"
        /\ \A q \in openPopups : q.gen = "cur"
        /\ ~overlap
        /\ (~mounted => canvasMarkers = {} /\ openPopups = {})

\* A rebuild: the cleanup detached the markers of the cycle before and the
\* effect attached new ones.
C1_Witness == component = "Map" /\ mounted /\ released /\ Cardinality(canvasMarkers) = MaxRecs

\* C2: every handle a cycle created is released by the teardown of that
\* cycle: none of an earlier cycle is attached or listening, and none at all
\* after unmount.
C2_EveryHandleReleased ==
    /\ staleCircles = 0
    /\ \A c \in circles : c.gen = "cur"
    /\ \A m \in canvasMarkers : m.gen = "cur"
    /\ \A q \in openPopups : q.gen = "cur"
    /\ \A l \in listeners : l.gen = "cur"
    /\ (~mounted => circles = {} /\ canvasMarkers = {} /\ openPopups = {} /\ listeners = {})

\* C3: LocationMap returns one of five outputs, chosen in the order invalid
\* or empty data, missing credential, load error, still loading, ready; the
\* canvas is returned exactly when the data is a non-empty list, the credential
\* is present, there is no load error and the library is loaded.
C3_RenderPriority ==
    component = "Map" /\ mounted =>
        /\ rendered \in { "noLocations", "keyNotConfigured", "loadError", "loading", "canvas" }
        /\ (InvalidPayload => rendered = "noLocations")
        /\ (~InvalidPayload /\ ~apiKey => rendered = "keyNotConfigured")
        /\ (~InvalidPayload /\ apiKey /\ loadError => rendered = "loadError")
        /\ (~InvalidPayload /\ apiKey /\ ~loadError /\ ~isLoaded => rendered = "loading")
        /\ (rendered = "canvas" <=> ~InvalidPayload /\ apiKey /\ ~loadError /\ isLoaded)

\* Two conditions hold at once and the earlier one in the order wins.
C3_Witness ==
    /\ component = "Map" /\ mounted /\ InvalidPayload /\ ~apiKey /\ loadError /\ isLoaded
    /\ rendered = "noLocations"

\* C4 as stated: with the credential missing each component returns its
\* "API key not configured" placeholder.
C4_KeyPlaceholderAlways == mounted /\ ~apiKey => rendered = "keyNotConfigured"

\* C4, amended: with the credential missing, AddressSearchInput returns the
\* placeholder whatever the load state is, and so does LocationMap unless its
\* payload is empty or does not parse, which returns "no locations".
C4_KeyPlaceholderUnlessNoData ==
    mounted /\ ~apiKey =>
        rendered = IF component = "Map" /\ InvalidPayload
                   THEN "noLocations" ELSE "keyNotConfigured"

\* The credential is missing while the library is loaded and a load error is set.
C4_Witness ==
    /\ component = "Input" /\ mounted /\ ~apiKey /\ loadError /\ isLoaded
    /\ rendered = "keyNotConfigured"

\* C5: LocationMap: with a payload that is empty or does not parse the
\* component returns "no locations", its effect constructs nothing and holds
\* nothing, whatever the credential and the load state are, and the parse
\* failure stays inside the component.
C5_InvalidPayloadBuildsNothing ==
    component = "Map" /\ mounted /\ InvalidPayload =>
        /\ rendered = "noLocations"
        /\ constructed = << >>
        /\ markersRef = << >> /\ infoWindowRef = None /\ mapInstanceRef = None
        /\ canvasMarkers = {} /\ circles = {} /\ openPopups = {}
        /\ ~hasCleanup
        /\ ~escaped

\* A built map is handed text that is no JSON while everything else is ready.
C5_Witness ==
    /\ component = "Map" /\ mounted /\ mapParams = NotJSON
    /\ apiKey /\ isLoaded /\ ~loadError /\ released
    /\ logged = << "Error parsing mapParams" >>

WellFormed(loc) == ~loc.isNull /\ IsSome(loc.address) /\ IsSome(loc.gpscoords)

\* C6: LocationMap: in a build in which no constructor of the provider
\* fails, every well-formed record that follows a malformed record has its
\* marker.
C6_LaterRecordsGetMarkers ==
    component = "Map" /\ mounted /\ rendered = "canvas" /\ fault = "none" =>
        \A i \in 1..Len(mapParams.items) :
            /\ WellFormed(mapParams.items[i])
            /\ \E j \in 1..(i - 1) : ~WellFormed(mapParams.items[j])
            => \E m \in canvasMarkers : m.index = i

\* LocationMap: no failure of a constructor leaves the effect: it is logged
\* and the effect still returns its cleanup function, which empties
\* markersRef and clears the popup and the canvas refs.
EffectFailuresContained ==
    /\ ~escaped
    /\ component = "Map" /\ mounted /\ rendered = "canvas" =>
        /\ hasCleanup
        /\ (fault \in { "Map", "InfoWindow" } => logged = << "Error initializing map" >>)
        /\ (fault = "Marker" => logged # << >>)
        /\ Range(logged) \subseteq { "Error initializing map", "Error creating marker" }
    /\ component = "Map" /\ ~mounted =>
        /\ markersRef = << >> /\ canvasMarkers = {}
        /\ infoWindowRef = None /\ mapInstanceRef = None

\* In the current cycle an object of the class was constructed and a later
\* construction failed.
BuiltBeforeFailure(class) ==
    \E i, j \in 1..Len(constructed) :
        i < j /\ constructed[i].class = class /\ constructed[j].class = "catch"

\* The step runs the cleanup function of the current cycle: a dependency
\* changes or the component unmounts.
TeardownStep ==
    /\ mounted /\ hasCleanup
    /\ \/ ~mounted' \/ mapParams' # mapParams \/ isLoaded' # isLoaded
       \/ loadError' # loadError \/ apiKey' # apiKey

\* C7: LocationMap: no failure of a constructor leaves the effect or its
\* cleanup, the effect still returns its cleanup function, and the teardown
\* of a cycle in which a construction failed leaves nothing attached or
\* open that the cycle built before the failure: no marker, no popup, and
\* no circle more than before.
C7_FailuresContainedAndTornDown ==
    [][ /\ ~escaped'
        /\ (component = "Map" /\ mounted' /\ rendered' = "canvas" => hasCleanup')
        /\ (component = "Map" /\ TeardownStep =>
                /\ (BuiltBeforeFailure("AdvancedMarkerElement") =>
                        \A m \in canvasMarkers' : m.gen = "cur")
                /\ (BuiltBeforeFailure("InfoWindow") =>
                        \A q \in openPopups' : q.gen = "cur")
                /\ (BuiltBeforeFailure("Circle") => staleCircles' = staleCircles) ) ]_vars

Incomplete(pl) ==
    \/ pl.geometry = None
    \/ Get(pl.geometry).location = None
    \/ pl.formatted_address = None

\* C8: AddressSearchInput: a place_changed event whose place lacks
\* geometry.location or formatted_address calls neither onAddressSelect nor
\* onChange; it logs one warning.
C8_IncompleteSelectionDiscarded ==
    IsSome(lastPlace) /\ Incomplete(Get(lastPlace)) =>
        invoked = << >> /\ logged = << "Incomplete place data" >>

\* A place with an address and a geometry that has no location, while a change
\* handler is supplied.
C8_Witness ==
    /\ IsSome(lastPlace) /\ IsSome(onChange)
    /\ IsSome(Get(lastPlace).geometry) /\ Get(Get(lastPlace).geometry).location = None
    /\ IsSome(Get(lastPlace).formatted_address)

SelectCalls == SelectSeq(invoked, LAMBDA c : c.fn = "onAddressSelect")

\* C9: AddressSearchInput: a place_changed event whose place has both
\* fields calls the current onAddressSelect exactly once, with the formatted
\* address and the {lat, lng} of the geometry, whatever commits came before.
C9_CompleteSelectionOnce ==
    IsSome(lastPlace) /\ ~Incomplete(Get(lastPlace)) =>
        SelectCalls = << [fn |-> "onAddressSelect", id |-> onAddressSelect,
                          address |-> Get(lastPlace).formatted_address,
                          gpscoords |-> Get(Get(lastPlace).geometry).location] >>

\* A complete selection after the behavior was torn down and attached again.
C9_Witness ==
    /\ IsSome(lastPlace) /\ ~Incomplete(Get(lastPlace)) /\ released
    /\ Len(SelectCalls) = 1

\* C10: AddressSearchInput: at most one place_changed listener is
\* registered; a commit removes the listener and clears the handle of the
\* cycle before, before it constructs the next behavior, and so does unmount.
C10_OneListener ==
    component = "Input" =>
        /\ Cardinality(listeners) <= 1
        /\ \A l \in listeners : l.gen = "cur"
        /\ (IsSome(autocompleteRef) => Get(autocompleteRef).gen = "cur")
        /\ ~overlap
        /\ (~mounted => listeners = {} /\ autocompleteRef = None)

\* The listener was removed and a new one attached in one commit.
C10_Witness ==
    /\ component = "Input" /\ mounted /\ released
    /\ Cardinality(listeners) = 1 /\ IsSome(autocompleteRef)

\* C11: an instance of either component that unmounted while the library
\* was not loaded holds and shows no provider object afterwards and
\* constructs none, also once the load signal is true.
C11_NothingBuiltAfterUnmount ==
    loadedAtUnmount = Some(FALSE) =>
        /\ constructed = << >>
        /\ markersRef = << >> /\ infoWindowRef = None /\ mapInstanceRef = None
        /\ autocompleteRef = None
        /\ canvasMarkers = {} /\ circles = {} /\ openPopups = {} /\ listeners = {}
        /\ ~hasCleanup

\* Unmounted before the load; now the signal is true and a mounted instance
\* with these props would build.
C11_Witness ==
    /\ loadedAtUnmount = Some(FALSE) /\ isLoaded /\ apiKey /\ ~loadError
    /\ (component = "Map" => ~InvalidPayload)

\* The canvas is shown, no constructor failed and record 0 has coordinates.
BuiltWithoutFault ==
    /\ component = "Map" /\ mounted /\ rendered = "canvas" /\ fault = "none"
    /\ ~mapParams.items[1].isNull /\ IsSome(mapParams.items[1].gpscoords)

\* The circle the claim gives the DESTINATION record at position i.
ClaimedCircle(i) ==
    LET loc == mapParams.items[i]
    IN  [gen |-> "cur", index |-> i, center |-> Get(mapParams.items[1].gpscoords),
         radius |-> IF IsSome(loc.radius) THEN Get(loc.radius) ELSE DefaultRadius]

\* C12: LocationMap: every DESTINATION record draws exactly one circle,
\* centred on the coordinates of record 0, with the record's radius when it
\* has one (0 included) and 1000 otherwise; a record of another category draws
\* none.
C12_DestinationCircle ==
    BuiltWithoutFault =>
        \A i \in 1..Len(mapParams.items) :
            LET loc == mapParams.items[i]
                drawn == { c \in circles : c.index = i }
            IN  IF ~loc.isNull /\ loc.type = DESTINATION
                THEN drawn = { ClaimedCircle(i) }
                ELSE drawn = {}

ValidPayload ==
    /\ mapParams.kind = "array" /\ mapParams.items # << >>
    /\ \A i \in 1..Len(mapParams.items) : WellFormed(mapParams.items[i])

\* C13: LocationMap: in the ready state, with a list of well-formed
\* records and no failing constructor, one build creates as many markers as
\* there are records, all attached; marker i is at the coordinates of record
\* i and carries the card built from the address of record i.
C13_OneMarkerPerRecord ==
    component = "Map" /\ mounted /\ rendered = "canvas" /\ fault = "none" /\ ValidPayload =>
        /\ Len(markersRef) = Len(mapParams.items)
        /\ canvasMarkers = Range(markersRef)
        /\ Len(SelectSeq(constructed, LAMBDA c : c.class = "AdvancedMarkerElement"))
               = Len(mapParams.items)
        /\ \A i \in 1..Len(markersRef) :
               LET m == markersRef[i]
                   loc == mapParams.items[i]
               IN  /\ m.index = i
                   /\ m.position = loc.gpscoords
                   /\ IsSome(m.attribute)
                   /\ Get(m.attribute).address = loc.address
                   /\ Get(m.attribute).street = Some(Head(Get(loc.address)))

\* Two well-formed records with different coordinates and addresses, built.
C13_Witness ==
    /\ component = "Map" /\ mounted /\ rendered = "canvas" /\ fault = "none" /\ ValidPayload
    /\ Len(markersRef) = 2
    /\ mapParams.items[1].gpscoords # mapParams.items[2].gpscoords
    /\ mapParams.items[1].address # mapParams.items[2].address

\* C14: AddressSearchInput: on a complete selection with a change
\* handler supplied, the handler is called once, after onAddressSelect, with
\* an event whose target.value is the formatted address; with none supplied
\* onAddressSelect is the only call.
C14_ChangeAfterSelect ==
    IsSome(lastPlace) /\ ~Incomplete(Get(lastPlace)) =>
        LET address == Get(Get(lastPlace).formatted_address)
        IN  IF IsSome(onChange)
            THEN /\ Len(invoked) = 2
                 /\ invoked[1].fn = "onAddressSelect"
                 /\ invoked[2] = [fn |-> "onChange", id |-> Get(onChange),
                                  address |-> Some(address), gpscoords |-> None]
            ELSE /\ Len(invoked) = 1
                 /\ invoked[1].fn = "onAddressSelect"

\* A complete selection while a change handler is supplied.
C14_Witness ==
    /\ IsSome(lastPlace) /\ ~Incomplete(Get(lastPlace)) /\ IsSome(onChange)
    /\ Len(invoked) = 2

\* C15: LocationMap: the canvas of the current cycle is centred on the
\* coordinates of record 0 of the current list at zoom 14, whatever the other
\* records are, also after the list changed; a canvas is held whenever the
\* canvas output is shown, record 0 has coordinates and its constructor did not
\* fail.
C15_CentredOnRecordZero ==
    component = "Map" /\ mounted =>
        /\ (IsSome(mapInstanceRef) =>
                /\ rendered = "canvas"
                /\ Get(mapInstanceRef).gen = "cur"
                /\ Get(mapInstanceRef).zoom = Zoom
                /\ mapParams.items[1].gpscoords = Some(Get(mapInstanceRef).center))
        /\ (/\ rendered = "canvas" /\ fault # "Map"
            /\ ~mapParams.items[1].isNull /\ IsSome(mapParams.items[1].gpscoords)
            => IsSome(mapInstanceRef))

\* A rebuild after the list changed, with a second record that lies elsewhere.
C15_Witness ==
    /\ component = "Map" /\ mounted /\ released /\ IsSome(mapInstanceRef)
    /\ Len(mapParams.items) = 2
    /\ IsSome(mapParams.items[2].gpscoords)
    /\ mapParams.items[2].gpscoords # mapParams.items[1].gpscoords

\* The component is in its ready state.
Ready ==
    /\ mounted /\ apiKey /\ isLoaded /\ ~loadError
    /\ (component = "Map" => ~InvalidPayload)

\* A provider object of the instance is attached, open, allocated or listening.
Live ==
    \/ canvasMarkers # {} \/ markersRef # << >>
    \/ openPopups # {} \/ IsSome(infoWindowRef)
    \/ IsSome(mapInstanceRef) \/ circles # {}
    \/ listeners # {} \/ IsSome(autocompleteRef)

C17_OnePopupOfLastClick ==
    [][ component = "Map" =>
          /\ Cardinality(openPopups') <= 1
          /\ (TeardownStep => openPopups' = {})
          /\ (~mounted' => openPopups' = {})
          /\ (openPopups' # openPopups /\ openPopups' # {} =>
                \E m \in canvasMarkers :
                    /\ m.gen = "cur" /\ m.listening
                    /\ openPopups' = { [gen |-> "cur", content |-> m.attribute,
                                        anchor |-> m.index, anchorGen |-> "cur"] }) ]_vars

====
